---- MODULE Spec2Model ----
(***************************************************************************)
(* Model of anonipy's PseudonymizationStrategy (the replacement engine)    *)
(* and of the file Pipeline that drives it.                                *)
(*                                                                         *)
(* Strings are sequences of one-character strings.  Python's None and a    *)
(* raised exception are the two marker values None and Raised.             *)
(***************************************************************************)
EXTENDS Integers, Sequences, FiniteSets

\* ---------------------------------------------------------------- bounds
MaxTextLen == 2
MaxEnts == 2
MaxFiles == 2

\* ---------------------------------------------------------------- inputs
Chars == {"a", "b"}
EntTexts == {<<"a">>, <<"b">>}
Labels == {"PERSON"}
StartOffsets == 0..2
EndOffsets == 1..3
GenValues == {<<>>, <<"x">>, <<"y", "y">>}

None == <<"<None>">>
Raised == <<"<raised>">>
Whitespace == {" "}

Docs == UNION {[1..n -> Chars] : n \in 0..MaxTextLen}
Entity == [text : EntTexts, label : Labels, start_index : StartOffsets, end_index : EndOffsets]
EntityLists == UNION {[1..n -> Entity] : n \in 0..MaxEnts}

VARIABLES
    mapping,                 \* PseudonymizationStrategy.mapping
    anonymized_files_count,  \* Pipeline.anonymized_files_count
    pc,                      \* position of the pipeline / strategy
    original_text,           \* _anonymize_file: original_text (the text argument)
    entities,                \* the entities argument, in caller order
    text,                    \* anonymize: the local text, rebuilt at each splice
    s_entities,              \* anonymize: s_entities
    idx,                     \* number of entities of s_entities already processed
    replacements,            \* anonymize: replacements (the accumulator)
    result,                  \* what strategy.anonymize returned
    output,                  \* the output file written for the current document
    genCalls,                \* history: the Value Generator invocations of this call
    invalidSeen              \* history: an entity was invalid for the text it was spliced into

vars == <<mapping, anonymized_files_count, pc, original_text, entities, text,
          s_entities, idx, replacements, result, output, genCalls, invalidSeen>>

\* ------------------------------------------------------- Python helpers
Min(a, b) == IF a < b THEN a ELSE b
Max(a, b) == IF a > b THEN a ELSE b

\* the position a slice bound i denotes in a string of length n
SliceBound(i, n) == IF i < 0 THEN Max(n + i, 0) ELSE Min(i, n)

\* t[:i]
SliceTo(t, i) == SubSeq(t, 1, SliceBound(i, Len(t)))

\* t[i:]
SliceFrom(t, i) == SubSeq(t, SliceBound(i, Len(t)) + 1, Len(t))

\* t[i:j]
Slice(t, i, j) == SubSeq(t, SliceBound(i, Len(t)) + 1, SliceBound(j, Len(t)))

\* not v
Falsy(v) == v = None \/ v = <<>>

\* the accumulator returned as built, without the reversal
NotReversed(s) == s

\* s[::-1]
Reversed(s) == [k \in 1..Len(s) |-> s[Len(s) + 1 - k]]

\* not t.strip()
IsBlank(t) == \A k \in 1..Len(t) : t[k] \in Whitespace

\* --------------------------------------------------------------- sorting
\* e goes behind every element whose key is >= its own: a stable descending insert
InsertDesc(s, e) ==
    LET n == Cardinality({k \in 1..Len(s) : s[k].start_index >= e.start_index})
    IN  SubSeq(s, 1, n) \o <<e>> \o SubSeq(s, n + 1, Len(s))

\* the same insert for an ascending sort (reverse=True left out)
InsertAsc(s, e) ==
    LET n == Cardinality({k \in 1..Len(s) : s[k].start_index <= e.start_index})
    IN  SubSeq(s, 1, n) \o <<e>> \o SubSeq(s, n + 1, Len(s))

RECURSIVE SortedAscending(_)
SortedAscending(ents) ==
    IF ents = <<>> THEN <<>>
    ELSE InsertAsc(SortedAscending(SubSeq(ents, 1, Len(ents) - 1)), ents[Len(ents)])

\* sorted(entities, key=lambda x: x.start_index, reverse=True)
RECURSIVE SortedEntities(_)
SortedEntities(ents) ==
    IF ents = <<>> THEN <<>>
    ELSE InsertDesc(SortedEntities(SubSeq(ents, 1, Len(ents) - 1)), ents[Len(ents)])

\* ------------------------------------------------------------ the engine
\* an accumulator that outlived an earlier call and still holds its record
StaleScope ==
    <<[original_text |-> <<"a">>, label |-> "PERSON", start_index |-> 0,
       end_index |-> 1, anonymized_text |-> <<"x">>]>>

\* replacements = []
FreshScope == <<>>

\* _check_replacement
CheckReplacement(entity, repl) ==
    LET existing == SelectSeq(repl, LAMBDA x : x.original_text = entity.text)
    IN  IF Len(existing) > 0 THEN existing[1].anonymized_text ELSE None

\* the dictionary _create_replacement returns
Replacement(entity, anonymized) ==
    [original_text   |-> entity.text,
     label           |-> entity.label,
     start_index     |-> entity.start_index,
     end_index       |-> entity.end_index,
     anonymized_text |-> anonymized]

\* text[: r["start_index"]] + r["anonymized_text"] + text[r["end_index"] :]
Splice(t, r) == SliceTo(t, r.start_index) \o r.anonymized_text \o SliceFrom(t, r.end_index)

\* the InvalidEntity condition of an entity against the text it is spliced into
InvalidEntity(e, t) ==
    \/ e.start_index >= e.end_index
    \/ e.start_index < 0
    \/ e.end_index > Len(t)

NoResult == [returned |-> FALSE, text |-> <<>>, records |-> <<>>]
NoFile == [exists |-> FALSE, name |-> 0, content |-> <<>>]

Init ==
    /\ mapping = "generator"
    /\ anonymized_files_count = 0
    /\ pc = "walk"
    /\ original_text = <<>>
    /\ entities = <<>>
    /\ text = <<>>
    /\ s_entities = <<>>
    /\ idx = 0
    /\ replacements = <<>>
    /\ result = NoResult
    /\ output = NoFile
    /\ genCalls = <<>>
    /\ invalidSeen = FALSE

\* Pipeline.anonymize reaches a file the extractor finds entities in, and
\* _anonymize_file calls strategy.anonymize, which runs up to the head of its loop.
StartCall ==
    /\ pc = "walk"
    /\ anonymized_files_count < MaxFiles
    /\ \E doc \in Docs, ents \in EntityLists :
        /\ original_text' = doc
        /\ entities' = ents
        /\ text' = doc
        /\ s_entities' = SortedEntities(ents)
    /\ pc' = "loop"
    /\ idx' = 0
    /\ replacements' = FreshScope
    /\ UNCHANGED <<mapping, anonymized_files_count, result, output, genCalls, invalidSeen>>

\* Pipeline.anonymize reaches a file that cannot be read or for which the
\* extractor returns None: _anonymize_file returns "" and the file is skipped.
SkipFile ==
    /\ pc = "walk"
    /\ anonymized_files_count < MaxFiles
    /\ pc' = "skipped"
    /\ UNCHANGED <<mapping, anonymized_files_count, original_text, entities, text,
                   s_entities, idx, replacements, result, output, genCalls, invalidSeen>>

\* one loop iteration with the anonymized text a
Step(ent, a) ==
    LET r == Replacement(ent, a)
    IN  /\ text' = Splice(text, r)
        /\ replacements' = Append(replacements, r)
        /\ idx' = idx + 1
        /\ invalidSeen' = (invalidSeen \/ InvalidEntity(ent, text))

\* a loop iteration in which _check_replacement finds a usable value
Reuse ==
    /\ pc = "loop"
    /\ idx < Len(s_entities)
    /\ LET ent == s_entities[idx + 1]
           found == CheckReplacement(ent, replacements)
       IN  /\ ~Falsy(found)
           /\ Step(ent, found)
    /\ UNCHANGED <<mapping, anonymized_files_count, pc, original_text, entities,
                   s_entities, result, output, genCalls>>

\* a loop iteration in which self.mapping(text, entity) is called and returns v
Generate ==
    /\ pc = "loop"
    /\ idx < Len(s_entities)
    /\ LET ent == s_entities[idx + 1]
           found == CheckReplacement(ent, replacements)
       IN  /\ Falsy(found)
           /\ \E v \in GenValues :
                /\ genCalls' = Append(genCalls, [text |-> text, entity |-> ent,
                                                 pos |-> idx + 1, value |-> v])
                /\ Step(ent, v)
    /\ UNCHANGED <<mapping, anonymized_files_count, pc, original_text, entities,
                   s_entities, result, output>>

\* the iteration in which self.mapping raises, had the loop swallowed the
\* exception and gone on with the entity's own text
GenerateFallback ==
    /\ pc = "loop"
    /\ idx < Len(s_entities)
    /\ LET ent == s_entities[idx + 1]
           found == CheckReplacement(ent, replacements)
       IN  /\ Falsy(found)
           /\ genCalls' = Append(genCalls, [text |-> text, entity |-> ent,
                                            pos |-> idx + 1, value |-> Raised])
           /\ Step(ent, ent.text)
    /\ UNCHANGED <<mapping, anonymized_files_count, pc, original_text, entities,
                   s_entities, result, output>>

\* a loop iteration in which self.mapping(text, entity) raises: nothing in the
\* strategy catches it, so the call ends with the exception in flight
GenerateFails ==
    /\ pc = "loop"
    /\ idx < Len(s_entities)
    /\ LET ent == s_entities[idx + 1]
           found == CheckReplacement(ent, replacements)
       IN  /\ Falsy(found)
           /\ genCalls' = Append(genCalls, [text |-> text, entity |-> ent,
                                            pos |-> idx + 1, value |-> Raised])
    /\ pc' = "raised"
    /\ UNCHANGED <<mapping, anonymized_files_count, original_text, entities, text,
                   s_entities, idx, replacements, result, output, invalidSeen>>

\* return text, replacements[::-1]: the call's frame is gone, its result is
\* in _anonymize_file
Return ==
    /\ pc = "loop"
    /\ idx = Len(s_entities)
    /\ result' = [returned |-> TRUE, text |-> text, records |-> Reversed(replacements)]
    /\ pc' = "returned"
    /\ text' = <<>>
    /\ s_entities' = <<>>
    /\ idx' = 0
    /\ replacements' = <<>>
    /\ UNCHANGED <<mapping, anonymized_files_count, original_text, entities, output,
                   genCalls, invalidSeen>>

\* the frames of strategy.anonymize and _anonymize_file are left
FramesDropped ==
    /\ original_text' = <<>>
    /\ entities' = <<>>
    /\ text' = <<>>
    /\ s_entities' = <<>>
    /\ idx' = 0
    /\ replacements' = <<>>
    /\ result' = NoResult
    /\ genCalls' = <<>>
    /\ invalidSeen' = FALSE

\* Pipeline.anonymize: except Exception: print, continue
CatchError ==
    /\ pc = "raised"
    /\ pc' = "caught"
    /\ FramesDropped
    /\ UNCHANGED <<mapping, anonymized_files_count, output>>

\* Pipeline.anonymize: the anonymized text is blank: print, continue
SkipEmpty ==
    /\ pc = "returned"
    /\ IsBlank(result.text)
    /\ pc' = "skipped"
    /\ FramesDropped
    /\ UNCHANGED <<mapping, anonymized_files_count, output>>

\* Pipeline.anonymize: count the file, name it and write it
WriteFile ==
    /\ pc = "returned"
    /\ ~IsBlank(result.text)
    /\ anonymized_files_count' = anonymized_files_count + 1
    /\ output' = [exists |-> TRUE, name |-> anonymized_files_count + 1,
                  content |-> result.text]
    /\ pc' = "written"
    /\ FramesDropped
    /\ UNCHANGED mapping

\* the walk moves on to the next file, whose output file is not written yet
NextFile ==
    /\ pc \in {"caught", "skipped", "written"}
    /\ pc' = "walk"
    /\ output' = NoFile
    /\ UNCHANGED <<mapping, anonymized_files_count, original_text, entities, text,
                   s_entities, idx, replacements, result, genCalls, invalidSeen>>

Next ==
    \/ StartCall
    \/ SkipFile
    \/ Reuse
    \/ Generate
    \/ GenerateFails
    \/ Return
    \/ CatchError
    \/ SkipEmpty
    \/ WriteFile
    \/ NextFile

Spec == Init /\ [][Next]_vars

TypeOK ==
    /\ pc \in {"walk", "loop", "raised", "returned", "caught", "skipped", "written"}
    /\ anonymized_files_count \in 0..MaxFiles
    /\ idx \in 0..Len(s_entities)

\* ------------------------------------------------------------ properties
\* every entity has 0 <= start_index < end_index <= len(doc)
WellFormed(ents, doc) ==
    \A k \in DOMAIN ents :
        /\ 0 <= ents[k].start_index
        /\ ents[k].start_index < ents[k].end_index
        /\ ents[k].end_index <= Len(doc)

\* no two entities share a character
NonOverlapping(ents) ==
    \A i, j \in DOMAIN ents :
        i # j => \/ ents[i].end_index <= ents[j].start_index
                 \/ ents[j].end_index <= ents[i].start_index

\* doc read left to right from position pos, each span of recs[k..] replaced
\* by its record's anonymized_text
RECURSIVE Rewritten(_, _, _, _)
Rewritten(doc, recs, k, pos) ==
    IF k > Len(recs) THEN SubSeq(doc, pos + 1, Len(doc))
    ELSE SubSeq(doc, pos + 1, recs[k].start_index)
            \o recs[k].anonymized_text
            \o Rewritten(doc, recs, k + 1, recs[k].end_index)

\* the positions of the loop at which the Value Generator was invoked
GeneratedAt == {genCalls[c].pos : c \in DOMAIN genCalls}

\* the first position of s_entities that holds the text of position k
FirstWithText(k) ==
    CHOOSE f \in 1..k :
        /\ s_entities[f].text = s_entities[k].text
        /\ \A g \in 1..(f - 1) : s_entities[g].text # s_entities[k].text

\* C1: any two Replacement Records of a call with equal original_text have
\* equal anonymized_text, whatever the Value Generator returns.
C1Consistency ==
    pc = "returned" =>
        \A i, j \in DOMAIN result.records :
            result.records[i].original_text = result.records[j].original_text
                => result.records[i].anonymized_text = result.records[j].anonymized_text

\* C2: for well-formed, pairwise non-overlapping entities the returned text
\* is the original text with every span replaced by its record's
\* anonymized_text and everything else kept in order; and at every step of
\* the loop the offsets of each entity not yet processed select the same
\* characters in the current text as in the original text.
C2Positional ==
    (WellFormed(entities, original_text) /\ NonOverlapping(entities)) =>
        /\ pc = "returned" =>
            /\ Len(result.records) = Len(entities)
            /\ result.text = Rewritten(original_text, result.records, 1, 0)
        /\ pc = "loop" =>
            \A k \in (idx + 1)..Len(s_entities) :
                Slice(text, s_entities[k].start_index, s_entities[k].end_index)
                    = Slice(original_text, s_entities[k].start_index,
                            s_entities[k].end_index)

\* C2 happens: two non-overlapping entities were replaced by values whose
\* lengths differ from their spans' lengths.
C2Witness ==
    /\ pc = "returned"
    /\ WellFormed(entities, original_text)
    /\ NonOverlapping(entities)
    /\ Len(result.records) = 2
    /\ Len(result.records[1].anonymized_text) = 2
    /\ Len(result.records[2].anonymized_text) = 0

\* C3 (as claimed): the returned records are strictly ascending by
\* start_index, also when two entities share a start_index.
C3StrictlyAscending ==
    pc = "returned" =>
        \A k \in 1..(Len(result.records) - 1) :
            result.records[k].start_index < result.records[k + 1].start_index

\* C3 (amended): the returned records are ascending by start_index: never
\* descending, and strictly ascending between records whose entities have
\* different start_index.
C3Ascending ==
    pc = "returned" =>
        /\ Len(result.records) = Len(entities)
        /\ \A k \in 1..(Len(result.records) - 1) :
            result.records[k].start_index <= result.records[k + 1].start_index
        /\ (\A i, j \in DOMAIN entities :
                i # j => entities[i].start_index # entities[j].start_index)
            => \A k \in 1..(Len(result.records) - 1) :
                result.records[k].start_index < result.records[k + 1].start_index

\* C3 happens: a call returned two different records with one start_index.
C3Witness ==
    /\ pc = "returned"
    /\ Len(result.records) = 2
    /\ result.records[1].start_index = result.records[2].start_index
    /\ result.records[1].end_index # result.records[2].end_index

\* C4: a call that met an invalid entity (start_index >= end_index, or
\* offsets outside the text it was spliced into) does not return a result.
C4InvalidEntityFails ==
    invalidSeen => ~result.returned

\* C5: within one call the Value Generator is invoked at most once per
\* distinct entity text, whatever it returns.
C5GeneratedOncePerText ==
    \A c, d \in DOMAIN genCalls :
        c # d => genCalls[c].entity.text # genCalls[d].entity.text

\* C6: every invocation of the Value Generator receives the original
\* document text.
C6GeneratorSeesOriginal ==
    \A c \in DOMAIN genCalls : genCalls[c].text = original_text

\* C7: a call starts with an empty de-duplication scope and the instance
\* keeps its Value Generator: at every step of the loop the accumulator
\* holds exactly the records of this call's processed entities, and the
\* generator is skipped for an entity only on account of an earlier entity
\* of this call with the same text.
C7NoCrossCallState ==
    /\ mapping = "generator"
    /\ pc = "loop" =>
        /\ Len(replacements) = idx
        /\ \A k \in 1..idx :
            /\ replacements[k] = Replacement(s_entities[k], replacements[k].anonymized_text)
            /\ k \notin GeneratedAt =>
                \E j \in 1..(k - 1) :
                    /\ s_entities[j].text = s_entities[k].text
                    /\ replacements[j].anonymized_text = replacements[k].anonymized_text
    /\ pc \in {"walk", "caught", "skipped", "written"} =>
        /\ replacements = <<>>
        /\ genCalls = <<>>

\* C7 happens: after an earlier call whose text was written, a later call
\* has reused a value inside its own scope.
C7Witness ==
    /\ pc = "loop"
    /\ anonymized_files_count >= 1
    /\ idx = 2
    /\ Len(genCalls) = 1

\* C8: every returned record has 0 <= start_index < end_index <=
\* len(original_text) and original_text[start_index:end_index] equal to its
\* original_text.
C8RecordOffsetsValid ==
    pc = "returned" =>
        \A k \in DOMAIN result.records :
            LET R == result.records[k]
            IN  /\ 0 <= R.start_index
                /\ R.start_index < R.end_index
                /\ R.end_index <= Len(original_text)
                /\ SubSeq(original_text, R.start_index + 1, R.end_index) = R.original_text

\* C9: when the Value Generator fails the call ends there with the failure
\* in flight: the failing invocation is the last one (no retry, no fallback
\* value), nothing is returned, and the pipeline writes no output file for
\* the document.
C9FailurePropagates ==
    /\ \A c \in DOMAIN genCalls :
        genCalls[c].value = Raised =>
            /\ c = Len(genCalls)
            /\ pc = "raised"
            /\ Len(replacements) = genCalls[c].pos - 1
    /\ pc \in {"raised", "caught"} =>
        /\ ~result.returned
        /\ ~output.exists
    /\ output.exists => pc = "written"

\* C9 happens: the Value Generator failed after another entity of the call
\* had been spliced into the text.
C9Witness ==
    /\ pc = "raised"
    /\ idx = 1
    /\ text # original_text
    /\ Len(genCalls) = 2

\* C10: entities are processed in descending start_index, equal starts in
\* caller order, and every occurrence of a text gets the value generated for
\* the first occurrence in that order, the only one the generator is invoked
\* for.
C10FirstInProcessingOrder ==
    pc = "loop" =>
        /\ s_entities = SortedEntities(entities)
        /\ \A k \in 1..(Len(s_entities) - 1) :
            s_entities[k].start_index >= s_entities[k + 1].start_index
        /\ \A k \in 1..idx :
            /\ replacements[k].anonymized_text
                    = replacements[FirstWithText(k)].anonymized_text
            /\ k \in GeneratedAt <=> k = FirstWithText(k)
====
